---- MODULE Spec2Model ----
(***************************************************************************)
(* Model of hosting-llm-ec2/app.py: the FastAPI proxy in front of Ollama.  *)
(*                                                                         *)
(* Encoding of Python values:                                              *)
(*   - a value of an Optional[...] field is <<>> for None and <<v>> for v; *)
(*   - a str that is streamed or echoed is a sequence of characters;       *)
(*   - a dict with optional keys is a function whose DOMAIN is its keys;   *)
(*   - an opaque Dict[str, Any] is a set of <<key, value>> pairs.          *)
(***************************************************************************)
EXTENDS Integers, Sequences, FiniteSets, TLC

VARIABLES
    pc,              \* where the handler of the request stands
    endpoint,        \* the route that was called
    raw,             \* the request as it arrived (body or path parameter)
    request,         \* the validated ChatRequest
    ollama_request,  \* the request built for the backend
    backend,         \* what the backend is going to do with this request
    received,        \* the part of the backend's body httpx has read
    cursor,          \* lines of the response stream_response has consumed
    relayed,         \* the characters sent to the caller of a streamed chat
    raised,          \* class of the exception raised inside the handler
    ollama_health,   \* what check_ollama_health gave the health endpoint
    result           \* the response the caller gets

vars == <<pc, endpoint, raw, request, ollama_request, backend, received,
          cursor, relayed, raised, ollama_health, result>>

\* ------------------------------------------------------------------ bounds
MaxMessages == 2
MaxToolCalls == 2
MaxBody == 5
MaxModels == 2

\* --------------------------------------------------------- configuration
DEFAULT_MODEL == "llama3.1:8b"

\* ------------------------------------------------------- Python helpers
None == <<>>

Some(v) == <<v>>

\* bool(x) of an Optional[str]
TruthyStr(o) == o # None /\ o[1] # ""

\* bool(x) of an Optional[List[...]]
TruthyList(o) == o # None /\ o[1] # <<>>

\* bool(x) of an Optional[Dict[...]]
TruthyDict(o) == o # None /\ o[1] # {}

\* bool(x) of an Optional[bool]
TruthyBool(o) == o # None /\ o[1]

\* d[k] = v on a dict
Put(d, k, v) == [x \in (DOMAIN d) \cup {k} |-> IF x = k THEN v ELSE d[x]]

\* ------------------------------------------------------ request schema
\* ChatMessage.__init__: pydantic fills the fields, then content defaults to
\* "" when neither content nor tool_calls is truthy.
ChatMessage(data) ==
    IF ~TruthyStr(data.content) /\ ~TruthyList(data.tool_calls)
    THEN [role |-> data.role, content |-> Some(""), tool_calls |-> data.tool_calls]
    ELSE [role |-> data.role, content |-> data.content, tool_calls |-> data.tool_calls]

\* ChatRequest(**body): every message is constructed, model defaults to
\* DEFAULT_MODEL when the body has none (None stands for an absent model; for
\* stream None is an explicit null, an absent stream being the same as false).
ChatRequest(data) ==
    [messages   |-> [i \in 1..Len(data.messages) |-> ChatMessage(data.messages[i])],
     model      |-> IF data.model = None THEN DEFAULT_MODEL ELSE data.model[1],
     stream     |-> data.stream,
     options    |-> data.options,
     tools      |-> data.tools,
     keep_alive |-> data.keep_alive]

\* ---------------------------------------------------- message reshaper
format_tool_calls(tool_calls) ==
    [i \in 1..Len(tool_calls) |-> [function |-> tool_calls[i].function]]

\* the reshaper with its last branch testing content alone
format_message_content_only(message) ==
    LET m0 == [role |-> message.role]
        m1 == IF TruthyStr(message.content)
              THEN Put(m0, "content", message.content)
              ELSE m0
        m2 == IF TruthyList(message.tool_calls)
              THEN Put(m1, "tool_calls", format_tool_calls(message.tool_calls[1]))
              ELSE m1
    IN  IF ~TruthyStr(message.content)
        THEN Put(m2, "content", Some(""))
        ELSE m2

\* the reshaper without its last branch
format_message_no_default(message) ==
    LET m0 == [role |-> message.role]
        m1 == IF TruthyStr(message.content)
              THEN Put(m0, "content", message.content)
              ELSE m0
    IN  IF TruthyList(message.tool_calls)
        THEN Put(m1, "tool_calls", format_tool_calls(message.tool_calls[1]))
        ELSE m1

format_message_for_ollama(message) ==
    LET m0 == [role |-> message.role]
        m1 == IF TruthyStr(message.content)
              THEN Put(m0, "content", message.content)
              ELSE m0
        m2 == IF TruthyList(message.tool_calls)
              THEN Put(m1, "tool_calls", format_tool_calls(message.tool_calls[1]))
              ELSE m1
    IN  IF ~TruthyStr(message.content) /\ ~TruthyList(message.tool_calls)
        THEN Put(m2, "content", Some(""))
        ELSE m2

\* -------------------------------------------- chat forwarder: the request
format_messages(messages) ==
    [i \in 1..Len(messages) |-> format_message_for_ollama(messages[i])]

\* options copied whenever the field is not None
add_options_not_none(req, r) ==
    IF req.options # None THEN Put(r, "options", req.options) ELSE r

add_options(req, r) ==
    IF TruthyDict(req.options) THEN Put(r, "options", req.options) ELSE r

add_tools(req, r) ==
    IF TruthyList(req.tools) THEN Put(r, "tools", req.tools) ELSE r

add_keep_alive(req, r) ==
    IF TruthyStr(req.keep_alive) THEN Put(r, "keep_alive", req.keep_alive) ELSE r

build_ollama_request(req) ==
    LET r0 == [model    |-> req.model,
               messages |-> format_messages(req.messages),
               stream   |-> TruthyBool(req.stream)]
    IN  add_keep_alive(req, add_tools(req, add_options(req, r0)))

\* ------------------------------------------------------------ input sets
Roles == {"user", "assistant"}

Contents == {None, Some(""), Some("4")}

FunctionPayloads == { {<<"name", "calculator">>, <<"arguments", "2+2">>},
                      {<<"name", "search">>} }

ToolCalls == [function : FunctionPayloads]

SeqUpTo(S, n) == UNION {[1..k -> S] : k \in 0..n}

ToolCallLists == {None} \cup {Some(s) : s \in SeqUpTo(ToolCalls, MaxToolCalls)}

\* every message body the schema accepts, within the bounds
MessageData == [role : Roles, content : Contents, tool_calls : ToolCallLists]

\* one message body per branch of the reshaper
SampleMessageData ==
    { [role |-> "user", content |-> Some("4"), tool_calls |-> None],
      [role |-> "assistant", content |-> None,
       tool_calls |-> Some(<<[function |-> {<<"name", "search">>}]>>)],
      [role |-> "assistant", content |-> Some("4"),
       tool_calls |-> Some(<<[function |-> {<<"name", "search">>}]>>)],
      [role |-> "user", content |-> None, tool_calls |-> None] }

Models == {None, Some("mistral")}

Streams == {None, Some(FALSE), Some(TRUE)}

Options == {None, Some({}), Some({<<"temperature", "0.7">>})}

Tools == {None, Some(<<>>), Some(<<{<<"type", "function">>}>>)}

KeepAlives == {None, Some(""), Some("5m")}

\* request bodies of the reshaping specification: one message of any shape
\* with the other fields left out, or up to MaxMessages sample messages with
\* every combination of the optional fields
ReshapeData ==
    { [messages |-> <<m>>, model |-> None, stream |-> Some(FALSE),
       options |-> None, tools |-> None, keep_alive |-> None] : m \in MessageData }
    \cup
    [messages : SeqUpTo(SampleMessageData, MaxMessages), model : Models,
     stream : Streams, options : Options, tools : Tools, keep_alive : KeepAlives]

\* ------------------------------------------------------------ exceptions
\* the base class of each exception class the handlers can meet (httpx,
\* fastapi and the builtins)
ExceptionBase(cls) ==
    CASE cls \in {"ConnectTimeout", "ReadTimeout", "WriteTimeout", "PoolTimeout"}
             -> "TimeoutException"
      [] cls \in {"ConnectError", "ReadError", "WriteError", "CloseError"}
             -> "NetworkError"
      [] cls = "RemoteProtocolError" -> "ProtocolError"
      [] cls \in {"TimeoutException", "NetworkError", "ProtocolError"}
             -> "TransportError"
      [] cls \in {"TransportError", "DecodingError", "TooManyRedirects"}
             -> "RequestError"
      [] cls = "RequestError" -> "HTTPError"
      [] cls = "JSONDecodeError" -> "ValueError"
      [] cls = "KeyError" -> "LookupError"
      [] cls \in {"HTTPError", "HTTPException", "ValueError", "LookupError",
                  "AttributeError", "RuntimeError"} -> "Exception"
      [] OTHER -> "BaseException"

RECURSIVE IsInstance(_, _)
IsInstance(cls, base) ==
    \/ cls = base
    \/ cls # "BaseException" /\ IsInstance(ExceptionBase(cls), base)

\* an exception other than HTTPException
Exc(cls) == [cls |-> cls, status_code |-> 0, detail |-> None]

\* the text of an error detail: its literal part, the backend text formatted
\* into it and the exception whose str() is formatted into it
Detail(msg, text, cause) == [msg |-> msg, text |-> text, cause |-> cause]

HTTPException(status_code, detail) ==
    [cls |-> "HTTPException", status_code |-> status_code, detail |-> Some(detail)]

\* the response FastAPI makes of an HTTPException that leaves the handler
ErrorResponse(e) ==
    [status_code |-> e.status_code, media_type |-> "application/json",
     content |-> None, detail |-> e.detail]

\* the response FastAPI makes of a returned value
JSONResponse(content) ==
    [status_code |-> 200, media_type |-> "application/json",
     content |-> Some(content), detail |-> None]

StreamingResponse ==
    [status_code |-> 200, media_type |-> "application/x-ndjson",
     content |-> None, detail |-> None]

\* ------------------------------------------------------------------ text
LF == "\n"

CR == "\r"

Chars == {"1", LF, CR}

Whitespace == {LF, CR}

RECURSIVE strip(_)
strip(s) ==
    IF s = <<>> THEN s
    ELSE IF Head(s) \in Whitespace THEN strip(Tail(s))
    ELSE IF s[Len(s)] \in Whitespace THEN strip(SubSeq(s, 1, Len(s) - 1))
    ELSE s

\* response.json() on a body over Chars: a JSON document is one number
\* between optional whitespace; anything else raises JSONDecodeError
json_loads(text) ==
    LET t == strip(text)
    IN  IF t # <<>> /\ \A i \in 1..Len(t) : t[i] = "1"
        THEN [ok |-> TRUE, value |-> t]
        ELSE [ok |-> FALSE, value |-> <<>>]

\* the lines of a text, ended by the characters of `ends`, CR LF counting as
\* one ending when both are in `ends`; a last line needs no ending
RECURSIVE split_lines(_, _, _, _, _)
split_lines(s, ends, i, cur, acc) ==
    IF i > Len(s) THEN (IF cur # <<>> THEN Append(acc, cur) ELSE acc)
    ELSE IF s[i] = CR /\ CR \in ends /\ LF \in ends /\ i < Len(s) /\ s[i + 1] = LF
         THEN split_lines(s, ends, i + 2, <<>>, Append(acc, cur))
    ELSE IF s[i] \in ends
         THEN split_lines(s, ends, i + 1, <<>>, Append(acc, cur))
    ELSE split_lines(s, ends, i + 1, Append(cur, s[i]), acc)

\* response.aiter_lines() of a response whose body has been read
aiter_lines(text) == split_lines(text, {LF, CR}, 1, <<>>, <<>>)

\* ------------------------------------------------------ POST /api/chat
\* FastAPI validates the body into a ChatRequest before the handler runs.
validate_chat ==
    /\ pc = "received"
    /\ endpoint = "chat"
    /\ request' = ChatRequest(raw)
    /\ pc' = "validated"
    /\ UNCHANGED <<endpoint, raw, ollama_request, backend, received, cursor,
                   relayed, raised, result,
                   ollama_health>>

\* chat_completion up to the await of http_client.post
chat_completion_build ==
    /\ pc = "validated"
    /\ endpoint = "chat"
    /\ ollama_request' = build_ollama_request(request)
    /\ pc' = "posting"
    /\ UNCHANGED <<endpoint, raw, request, backend, received, cursor,
                   relayed, raised, result,
                   ollama_health>>

\* the except clauses of chat_completion with RequestError tested first
chat_completion_except_request_first(e) ==
    IF IsInstance(e.cls, "RequestError")
    THEN HTTPException(503, Detail("Unable to connect to Ollama service", <<>>, None))
    ELSE IF IsInstance(e.cls, "TimeoutException")
    THEN HTTPException(504,
             Detail("Request timeout - the model is taking too long to respond",
                    <<>>, None))
    ELSE IF IsInstance(e.cls, "Exception")
    THEN HTTPException(500, Detail("Internal server error: ", <<>>, Some(e)))
    ELSE e

\* the except clauses of chat_completion, in their order: what leaves the
\* handler when e is raised inside its try block (the last clause formats
\* str(e), which for an HTTPException is its status code and its detail)
chat_completion_except(e) ==
    IF IsInstance(e.cls, "TimeoutException")
    THEN HTTPException(504,
             Detail("Request timeout - the model is taking too long to respond",
                    <<>>, None))
    ELSE IF IsInstance(e.cls, "RequestError")
    THEN HTTPException(503, Detail("Unable to connect to Ollama service", <<>>, None))
    ELSE IF IsInstance(e.cls, "Exception")
    THEN HTTPException(500, Detail("Internal server error: ", <<>>, Some(e)))
    ELSE e

\* exceptions http_client.post raises before any response arrives
RequestFailures == {"ConnectError", "ConnectTimeout", "PoolTimeout", "RuntimeError"}

\* exceptions http_client.post raises while it reads the response
ReadFailures == {"ReadTimeout", "ReadError", "RemoteProtocolError"}

Statuses == {200, 404, 500}

Bodies == SeqUpTo(Chars, MaxBody)

NoBackend == [fail |-> "none", status_code |-> 200, body |-> <<>>]

ChatBackends ==
    {[fail |-> f, status_code |-> 0, body |-> <<>>] : f \in RequestFailures}
    \cup
    [fail : {"none"} \cup ReadFailures, status_code : Statuses, body : Bodies]

ChatData ==
    [messages : {<<[role |-> "user", content |-> Some("4"), tool_calls |-> None]>>},
     model : {None}, stream : Streams, options : {None}, tools : {None},
     keep_alive : {None}]

\* await http_client.post(...): the request fails before a response
post_request_fails ==
    /\ pc = "posting"
    /\ endpoint = "chat"
    /\ backend.fail \in RequestFailures
    /\ raised' = backend.fail
    /\ result' = Some(ErrorResponse(chat_completion_except(Exc(backend.fail))))
    /\ pc' = "done"
    /\ UNCHANGED <<endpoint, raw, request, ollama_request, backend, received,
                   cursor, relayed,
                   ollama_health>>

\* await http_client.post(...): the status line and the headers arrive
post_reads_status ==
    /\ pc = "posting"
    /\ endpoint = "chat"
    /\ backend.fail \notin RequestFailures
    /\ pc' = "reading"
    /\ UNCHANGED <<endpoint, raw, request, ollama_request, backend, received,
                   cursor, relayed, raised, result,
                   ollama_health>>

\* await http_client.post(...): the backend emits the next character of its
\* body and httpx, which was not asked to stream, adds it to the content
post_reads_body ==
    /\ pc = "reading"
    /\ endpoint = "chat"
    /\ Len(received) < Len(backend.body)
    /\ received' = Append(received, backend.body[Len(received) + 1])
    /\ UNCHANGED <<pc, endpoint, raw, request, ollama_request, backend, cursor,
                   relayed, raised, result,
                   ollama_health>>

\* await http_client.post(...): reading the response fails, at any point
post_read_fails ==
    /\ pc = "reading"
    /\ endpoint = "chat"
    /\ backend.fail \in ReadFailures
    /\ raised' = backend.fail
    /\ result' = Some(ErrorResponse(chat_completion_except(Exc(backend.fail))))
    /\ pc' = "done"
    /\ UNCHANGED <<endpoint, raw, request, ollama_request, backend, received,
                   cursor, relayed,
                   ollama_health>>

\* the backend has closed its body and post has returned
post_returned ==
    /\ pc = "reading"
    /\ endpoint = "chat"
    /\ backend.fail = "none"
    /\ received = backend.body

\* response.status_code != 200: the HTTPException is raised inside the try
\* block, whose last clause catches it
chat_completion_backend_error ==
    /\ post_returned
    /\ backend.status_code # 200
    /\ raised' = "HTTPException"
    /\ result' = Some(ErrorResponse(chat_completion_except(
                     HTTPException(backend.status_code,
                         Detail("Ollama request failed: ", received, None)))))
    /\ pc' = "done"
    /\ UNCHANGED <<endpoint, raw, request, ollama_request, backend, received,
                   cursor, relayed,
                   ollama_health>>

\* request.stream: the StreamingResponse over stream_response() is returned
chat_completion_stream ==
    /\ post_returned
    /\ backend.status_code = 200
    /\ TruthyBool(request.stream)
    /\ result' = Some(StreamingResponse)
    /\ pc' = "streaming"
    /\ UNCHANGED <<endpoint, raw, request, ollama_request, backend, received,
                   cursor, relayed, raised,
                   ollama_health>>

\* otherwise response.json() is returned
chat_completion_json ==
    /\ post_returned
    /\ backend.status_code = 200
    /\ ~TruthyBool(request.stream)
    /\ IF json_loads(received).ok
       THEN /\ result' = Some(JSONResponse(json_loads(received).value))
            /\ UNCHANGED raised
       ELSE /\ raised' = "JSONDecodeError"
            /\ result' = Some(ErrorResponse(
                             chat_completion_except(Exc("JSONDecodeError"))))
    /\ pc' = "done"
    /\ UNCHANGED <<endpoint, raw, request, ollama_request, backend, received,
                   cursor, relayed,
                   ollama_health>>

\* what stream_response yields for one chunk, without the newline
stream_chunk_no_newline(chunk) ==
    chunk

\* what stream_response yields for one chunk of aiter_lines
stream_chunk(chunk) ==
    IF chunk # <<>> THEN chunk \o <<LF>> ELSE <<>>

\* one iteration of stream_response
stream_response_next ==
    /\ pc = "streaming"
    /\ cursor < Len(aiter_lines(received))
    /\ relayed' = relayed \o stream_chunk(aiter_lines(received)[cursor + 1])
    /\ cursor' = cursor + 1
    /\ UNCHANGED <<pc, endpoint, raw, request, ollama_request, backend, received,
                   raised, result,
                   ollama_health>>

\* aiter_lines is exhausted: the stream to the caller ends
stream_response_end ==
    /\ pc = "streaming"
    /\ cursor = Len(aiter_lines(received))
    /\ pc' = "done"
    /\ UNCHANGED <<endpoint, raw, request, ollama_request, backend, received,
                   cursor, relayed, raised, result,
                   ollama_health>>

Init ==
    /\ pc = "received"
    /\ endpoint = "chat"
    /\ raw \in ChatData
    /\ request = None
    /\ ollama_request = None
    /\ backend \in ChatBackends
    /\ received = <<>>
    /\ cursor = 0
    /\ relayed = <<>>
    /\ raised = "none"
    /\ ollama_health = None
    /\ result = None

Next ==
    \/ validate_chat
    \/ chat_completion_build
    \/ post_request_fails
    \/ post_reads_status
    \/ post_reads_body
    \/ post_read_fails
    \/ chat_completion_backend_error
    \/ chat_completion_stream
    \/ chat_completion_json
    \/ stream_response_next
    \/ stream_response_end

Spec == Init /\ [][Next]_vars

InitReshape ==
    /\ pc = "received"
    /\ endpoint = "chat"
    /\ raw \in ReshapeData
    /\ request = None
    /\ ollama_request = None
    /\ backend = NoBackend
    /\ received = <<>>
    /\ cursor = 0
    /\ relayed = <<>>
    /\ raised = "none"
    /\ ollama_health = None
    /\ result = None

NextReshape ==
    \/ validate_chat
    \/ chat_completion_build

SpecReshape == InitReshape /\ [][NextReshape]_vars

\* ------------------------------------------- GET /health, /api/models...
\* the outcome of a block of code: a returned value or a raised exception
Return(v) == [exc |-> None, value |-> Some(v)]

Raise(e) == [exc |-> Some(e), value |-> None]

\* response.json() of /api/tags and /api/show, as a document: text that is
\* not JSON, a JSON array, or an object whose "models" key is absent (None)
\* or a list of entries; an entry is a dict that may lack "name"
InvalidDocument == [kind |-> "invalid", models |-> None]

ArrayDocument == [kind |-> "array", models |-> None]

ModelEntries == {[name |-> "llama3.1:8b"], [name |-> "mistral"], [size |-> "4GB"]}

Documents ==
    {InvalidDocument, ArrayDocument, [kind |-> "object", models |-> None]}
    \cup
    {[kind |-> "object", models |-> Some(l)] : l \in SeqUpTo(ModelEntries, MaxModels)}

\* exceptions http_client.get and http_client.post raise on these routes
ProbeFailures == {"ConnectError", "ConnectTimeout", "ReadTimeout", "RuntimeError"}

ProbeBackends ==
    {[fail |-> f, status_code |-> 0, body |-> InvalidDocument] : f \in ProbeFailures}
    \cup
    [fail : {"none"}, status_code : Statuses, body : Documents]

ModelNames == {"foo", "llama3.1:8b"}

Unhealthy == [status |-> "unhealthy", models |-> <<>>]

\* the try block of check_ollama_health
check_ollama_health_try(b) ==
    IF b.fail # "none" THEN Raise(Exc(b.fail))
    ELSE IF b.status_code # 200 THEN Return(Unhealthy)
    ELSE IF b.body.kind = "invalid" THEN Raise(Exc("JSONDecodeError"))
    ELSE IF b.body.kind # "object" THEN Raise(Exc("AttributeError"))
    ELSE LET models == IF b.body.models = None THEN <<>> ELSE b.body.models[1]
         IN  IF \E i \in 1..Len(models) : "name" \notin DOMAIN models[i]
             THEN Raise(Exc("KeyError"))
             ELSE Return([status |-> "healthy",
                          models |-> [i \in 1..Len(models) |-> models[i].name]])

\* check_ollama_health catching httpx.RequestError alone
check_ollama_health_request_error(b) ==
    LET r == check_ollama_health_try(b)
    IN  IF r.exc # None /\ IsInstance(r.exc[1].cls, "RequestError")
        THEN Return(Unhealthy)
        ELSE r

check_ollama_health(b) ==
    LET r == check_ollama_health_try(b)
    IN  IF r.exc # None /\ IsInstance(r.exc[1].cls, "Exception")
        THEN Return(Unhealthy)
        ELSE r

\* the HealthResponse with the backend's status as its own
HealthResponse_backend_status(health) ==
    [status |-> health.status,
     ollama_status |-> health.status,
     available_models |-> health.models]

\* the HealthResponse health_check builds (its timestamp left out)
HealthResponse(health) ==
    [status |-> IF health.status = "healthy" THEN "healthy" ELSE "degraded",
     ollama_status |-> health.status,
     available_models |-> health.models]

\* the response to a handler that lets an exception other than HTTPException out
ServerError ==
    [status_code |-> 500, media_type |-> "text/plain", content |-> None,
     detail |-> None]

\* what a handler's outcome becomes for the caller
Respond(r) ==
    IF r.exc = None THEN JSONResponse(r.value[1])
    ELSE IF r.exc[1].cls = "HTTPException" THEN ErrorResponse(r.exc[1])
    ELSE ServerError

health_check ==
    /\ pc = "received"
    /\ endpoint = "health"
    /\ ollama_health' = check_ollama_health(backend)
    /\ result' = Some(IF ollama_health'.exc = None
                      THEN JSONResponse(HealthResponse(ollama_health'.value[1]))
                      ELSE ServerError)
    /\ pc' = "done"
    /\ UNCHANGED <<endpoint, raw, request, ollama_request, backend, received,
                   cursor, relayed, raised>>

\* the try block of list_models
list_models_try(b) ==
    IF b.fail # "none" THEN Raise(Exc(b.fail))
    ELSE IF b.status_code = 200
    THEN IF b.body.kind = "invalid" THEN Raise(Exc("JSONDecodeError"))
         ELSE Return(b.body)
    ELSE Raise(HTTPException(500,
             Detail("Failed to fetch models: ", ToString(b.status_code), None)))

\* the except clauses of list_models
list_models_except(e) ==
    IF IsInstance(e.cls, "RequestError")
    THEN HTTPException(503, Detail("Unable to connect to Ollama service", "", None))
    ELSE IF IsInstance(e.cls, "Exception")
    THEN HTTPException(500, Detail("", "", Some(e)))
    ELSE e

list_models_outcome(b) ==
    LET r == list_models_try(b)
    IN  IF r.exc = None THEN r ELSE Raise(list_models_except(r.exc[1]))

list_models ==
    /\ pc = "received"
    /\ endpoint = "models"
    /\ result' = Some(Respond(list_models_outcome(backend)))
    /\ raised' = IF list_models_try(backend).exc = None THEN "none"
                 ELSE list_models_try(backend).exc[1].cls
    /\ pc' = "done"
    /\ UNCHANGED <<endpoint, raw, request, ollama_request, backend, received,
                   cursor, relayed, ollama_health>>

\* the try block of get_model_info
get_model_info_try(model_name, b) ==
    IF b.fail # "none" THEN Raise(Exc(b.fail))
    ELSE IF b.status_code = 200
    THEN IF b.body.kind = "invalid" THEN Raise(Exc("JSONDecodeError"))
         ELSE Return(b.body)
    ELSE IF b.status_code = 404
    THEN Raise(HTTPException(404, Detail("Model '{model_name}' not found", model_name, None)))
    ELSE Raise(HTTPException(500,
             Detail("Failed to get model info: ", ToString(b.status_code), None)))

\* the except clauses of get_model_info without the one that re-raises
get_model_info_except_no_reraise(e) ==
    IF IsInstance(e.cls, "Exception")
    THEN HTTPException(500, Detail("", "", Some(e)))
    ELSE e

\* the except clauses of get_model_info
get_model_info_except(e) ==
    IF IsInstance(e.cls, "HTTPException") THEN e
    ELSE IF IsInstance(e.cls, "Exception")
    THEN HTTPException(500, Detail("", "", Some(e)))
    ELSE e

get_model_info_outcome(model_name, b) ==
    LET r == get_model_info_try(model_name, b)
    IN  IF r.exc = None THEN r ELSE Raise(get_model_info_except(r.exc[1]))

get_model_info ==
    /\ pc = "received"
    /\ endpoint = "model_info"
    /\ result' = Some(Respond(get_model_info_outcome(raw, backend)))
    /\ raised' = IF get_model_info_try(raw, backend).exc = None THEN "none"
                 ELSE get_model_info_try(raw, backend).exc[1].cls
    /\ pc' = "done"
    /\ UNCHANGED <<endpoint, raw, request, ollama_request, backend, received,
                   cursor, relayed, ollama_health>>

InitProbe ==
    /\ pc = "received"
    /\ \/ endpoint \in {"health", "models"} /\ raw = None
       \/ endpoint = "model_info" /\ raw \in ModelNames
    /\ request = None
    /\ ollama_request = None
    /\ backend \in ProbeBackends
    /\ received = <<>>
    /\ cursor = 0
    /\ relayed = <<>>
    /\ raised = "none"
    /\ ollama_health = None
    /\ result = None

NextProbe ==
    \/ health_check
    \/ list_models
    \/ get_model_info

SpecProbe == InitProbe /\ [][NextProbe]_vars

\* ---------------------------------------------------------------- claims
IsEmptyContent(m) == m.content = None \/ m.content = Some("")

HasToolCalls(m) == m.tool_calls # None /\ m.tool_calls # Some(<<>>)

\* C7: the backend request always has model, messages and stream; it has
\* options, tools or keep_alive only when that field is present and truthy on
\* the ChatRequest, a field that is absent is omitted and never null-valued,
\* and messages is the reshaping of each input message in the same order.
C7_BackendRequestKeys ==
    pc = "posting" =>
        /\ {"model", "messages", "stream"} \subseteq DOMAIN ollama_request
        /\ DOMAIN ollama_request \subseteq
               {"model", "messages", "stream", "options", "tools", "keep_alive"}
        /\ ollama_request.model = request.model
        /\ ollama_request.stream = (request.stream = Some(TRUE))
        /\ "options" \in DOMAIN ollama_request =>
               /\ request.options \notin {None, Some({})}
               /\ ollama_request.options = request.options
        /\ "tools" \in DOMAIN ollama_request =>
               /\ request.tools \notin {None, Some(<<>>)}
               /\ ollama_request.tools = request.tools
        /\ "keep_alive" \in DOMAIN ollama_request =>
               /\ request.keep_alive \notin {None, Some("")}
               /\ ollama_request.keep_alive = request.keep_alive
        /\ Len(ollama_request.messages) = Len(request.messages)
        /\ \A i \in 1..Len(request.messages) :
               /\ ollama_request.messages[i].role = request.messages[i].role
               /\ ollama_request.messages[i] =
                      format_message_for_ollama(request.messages[i])

C7_Witness ==
    /\ pc = "posting"
    /\ Len(request.messages) = 2
    /\ request.messages[1] # request.messages[2]
    /\ request.options = None
    /\ request.keep_alive = Some("")
    /\ request.tools # None /\ request.tools # Some(<<>>)
    /\ DOMAIN ollama_request = {"model", "messages", "stream", "tools"}

\* C8: a message with empty content (None or "") and a non-empty tool_calls
\* is reshaped to an object without a content key whose tool_calls has the
\* same length and order, each element being exactly {function: payload}.
C8_ToolCallsOnly ==
    pc = "posting" =>
        \A i \in 1..Len(request.messages) :
            LET m == request.messages[i]
                o == ollama_request.messages[i]
            IN  (IsEmptyContent(m) /\ HasToolCalls(m)) =>
                    /\ "content" \notin DOMAIN o
                    /\ "tool_calls" \in DOMAIN o
                    /\ Len(o.tool_calls) = Len(m.tool_calls[1])
                    /\ \A j \in 1..Len(o.tool_calls) :
                           /\ DOMAIN o.tool_calls[j] = {"function"}
                           /\ o.tool_calls[j].function = m.tool_calls[1][j].function

C8_Witness ==
    /\ pc = "posting"
    /\ Len(request.messages) = 1
    /\ request.messages[1].content = None
    /\ request.messages[1].tool_calls # None
    /\ Len(request.messages[1].tool_calls[1]) = 2
    /\ request.messages[1].tool_calls[1][1] # request.messages[1].tool_calls[1][2]
    /\ DOMAIN ollama_request.messages[1] = {"role", "tool_calls"}

\* C9: every reshaped message has role and at least one of content and
\* tool_calls, content being "" when neither input field yields a value; and
\* a constructed ChatMessage never has content and tool_calls both None.
C9_ContentOrToolCalls ==
    /\ \A i \in 1..Len(raw.messages) :
           LET m == raw.messages[i]
               o == format_message_for_ollama(m)
           IN  /\ "role" \in DOMAIN o /\ o.role = m.role
               /\ "content" \in DOMAIN o \/ "tool_calls" \in DOMAIN o
               /\ (IsEmptyContent(m) /\ ~HasToolCalls(m)) =>
                      ("content" \in DOMAIN o /\ o.content = Some(""))
    /\ pc \in {"validated", "posting"} =>
           \A i \in 1..Len(request.messages) :
               ~(request.messages[i].content = None
                 /\ request.messages[i].tool_calls = None)
    /\ pc = "posting" =>
           \A i \in 1..Len(request.messages) :
               LET m == request.messages[i]
                   o == ollama_request.messages[i]
               IN  /\ "role" \in DOMAIN o /\ o.role = m.role
                   /\ "content" \in DOMAIN o \/ "tool_calls" \in DOMAIN o
                   /\ (IsEmptyContent(m) /\ ~HasToolCalls(m)) =>
                          ("content" \in DOMAIN o /\ o.content = Some(""))

C9_Witness ==
    /\ pc = "posting"
    /\ Len(raw.messages) = 1
    /\ raw.messages[1].content = None
    /\ raw.messages[1].tool_calls = Some(<<>>)
    /\ request.messages[1].content = Some("")
    /\ ollama_request.messages[1] =
           [role |-> raw.messages[1].role, content |-> Some("")]

\* failures of the backend call that are timeouts
TimeoutFailures == {"ConnectTimeout", "ReadTimeout", "WriteTimeout", "PoolTimeout"}

\* failures of the backend call that are connection failures
ConnectionFailures == {"ConnectError", "ReadError"}

\* the backend answered the chat request with its whole response
BackendAnswered ==
    /\ endpoint = "chat"
    /\ pc \in {"streaming", "done"}
    /\ backend.fail = "none"
    /\ received = backend.body

\* the detail carries the text, itself or in the exception it formats
Echoes(detail, text) ==
    /\ detail # None
    /\ \/ detail[1].text = text
       \/ /\ detail[1].cause # None
          /\ detail[1].cause[1].detail # None
          /\ detail[1].cause[1].detail[1].text = text

\* C1: when the backend's chat endpoint answers with a non-2xx status S and
\* body B, the caller of POST /api/chat gets a failure with status S whose
\* detail echoes B, not a 500.
C1_BackendStatusPropagated ==
    (BackendAnswered /\ pc = "done" /\ backend.status_code \notin 200..299) =>
        /\ result[1].status_code = backend.status_code
        /\ Echoes(result[1].detail, backend.body)

\* C2: a timeout of the backend call gives the caller 504 and a connection
\* failure gives 503, neither gives 500, and 500 is given only for a failure
\* that is neither of the two.
C2_TimeoutAndUnavailable ==
    (endpoint = "chat" /\ pc = "done") =>
        /\ raised \in TimeoutFailures => result[1].status_code = 504
        /\ raised \in ConnectionFailures => result[1].status_code = 503
        /\ result[1].status_code = 500 =>
               /\ raised # "none"
               /\ raised \notin TimeoutFailures \cup ConnectionFailures

C2_Witness ==
    /\ endpoint = "chat"
    /\ pc = "done"
    /\ raised = "ReadTimeout"
    /\ received # <<>>
    /\ result[1].status_code = 504

\* the lines of a newline-delimited stream
ndjson_lines(text) == split_lines(text, {LF}, 1, <<>>, <<>>)

NonEmpty(line) == line # <<>>

Streamed == result = Some(StreamingResponse)

\* C3 as stated: the lines the caller of a streamed chat observes are the
\* lines the backend emitted, none dropped, merged, split or reordered.
C3_EveryLineVerbatim ==
    (BackendAnswered /\ pc = "done" /\ Streamed) =>
        ndjson_lines(relayed) = ndjson_lines(backend.body)

\* C3: the caller of a streamed chat observes, in arrival order and each ended
\* by a newline, the non-empty lines of the backend's response as aiter_lines
\* delimits them (LF, CR LF or CR); empty lines are dropped.
C3_NonEmptyLinesInOrder ==
    (BackendAnswered /\ Streamed) =>
        /\ ndjson_lines(relayed) =
               SelectSeq(SubSeq(aiter_lines(backend.body), 1, cursor), NonEmpty)
        /\ relayed # <<>> => relayed[Len(relayed)] = LF
        /\ pc = "done" => cursor = Len(aiter_lines(backend.body))

C3_Witness ==
    /\ BackendAnswered
    /\ Streamed
    /\ pc = "done"
    /\ backend.body = <<"1", LF, LF, "1">>
    /\ relayed = <<"1", LF, "1", LF>>

\* C4: with stream = true a line of the backend is relayed as soon as it has
\* arrived: once the backend has emitted a whole line, and before it emits
\* more or closes, the relay can hand that line to the caller.
C4_RelayedOnArrival ==
    (/\ endpoint = "chat"
     /\ pc = "reading"
     /\ TruthyBool(request.stream)
     /\ backend.status_code = 200
     /\ backend.fail = "none"
     /\ Len(received) < Len(backend.body)
     /\ received # <<>>
     /\ received[Len(received)] = LF
     /\ SelectSeq(aiter_lines(received), NonEmpty) # <<>>
     /\ relayed = <<>>)
        => ENABLED stream_response_next

\* the backend answered the health or model request with a response
ProbeAnswered(e) == endpoint = e /\ pc = "done" /\ backend.fail = "none"

\* a model listing check_ollama_health can read: an object whose entries,
\* if any, all have a name
WellFormedListing(doc) ==
    /\ doc.kind = "object"
    /\ doc.models # None =>
           \A i \in 1..Len(doc.models[1]) : "name" \in DOMAIN doc.models[1][i]

\* C5: check_ollama_health never raises, whatever the backend does (200, any
\* other status, connection failure, timeout, malformed body); a non-200
\* response or a connection failure gives "unhealthy" with no models, and a
\* 200 with a model listing gives "healthy" with every name in backend order.
C5_HealthCheckNeverRaises ==
    (endpoint = "health" /\ pc = "done") =>
        /\ ollama_health.exc = None
        /\ ollama_health.value # None
        /\ ((backend.fail = "none" /\ backend.status_code # 200)
            \/ backend.fail = "ConnectError") =>
               ollama_health.value[1] = [status |-> "unhealthy", models |-> <<>>]
        /\ (backend.fail = "none" /\ backend.status_code = 200
            /\ WellFormedListing(backend.body)) =>
               LET listed == IF backend.body.models = None THEN <<>>
                             ELSE backend.body.models[1]
                   health == ollama_health.value[1]
               IN  /\ health.status = "healthy"
                   /\ Len(health.models) = Len(listed)
                   /\ \A i \in 1..Len(listed) : health.models[i] = listed[i].name

C5_Witness ==
    /\ ProbeAnswered("health")
    /\ backend.status_code = 200
    /\ backend.body.models = Some(<<[name |-> "mistral"], [name |-> "llama3.1:8b"]>>)
    /\ ollama_health.value[1].models = <<"mistral", "llama3.1:8b">>

C10_BothRoutesNotFound ==
    \A e \in {"models", "model_info"} :
        ProbeAnswered(e) =>
            /\ (backend.status_code = 200 /\ backend.body.kind # "invalid") =>
                   result[1] = JSONResponse(backend.body)
            /\ backend.status_code = 404 =>
                   /\ result[1].status_code = 404
                   /\ e = "model_info" => result[1].detail[1].text = raw
            /\ backend.status_code \notin {200, 404} =>
                   result[1].status_code = 500

\* C10: on both model routes a backend 200 with a JSON body is returned
\* verbatim; on the by-name route a backend 404 becomes a 404 naming the
\* model and any other status a 500; on the list route every status other
\* than 200, 404 included, becomes a 500.
C10_ModelRoutes ==
    /\ \A e \in {"models", "model_info"} :
           (ProbeAnswered(e) /\ backend.status_code = 200
            /\ backend.body.kind # "invalid") =>
               result[1] = JSONResponse(backend.body)
    /\ ProbeAnswered("model_info") =>
           /\ backend.status_code = 404 =>
                  /\ result[1].status_code = 404
                  /\ result[1].detail # None
                  /\ result[1].detail[1].text = raw
           /\ backend.status_code \notin {200, 404} => result[1].status_code = 500
    /\ ProbeAnswered("models") =>
           (backend.status_code # 200 => result[1].status_code = 500)

C10_Witness ==
    /\ ProbeAnswered("model_info")
    /\ raw = "foo"
    /\ backend.status_code = 404
    /\ result[1].status_code = 404
    /\ result[1].detail[1].text = "foo"

====
